---- MODULE Spec2Model ----
(***************************************************************************)
(* Model of utils/section_navigator.py: LegalSection, the page scanner of  *)
(* SectionNavigator.load_document with its regular expressions, the        *)
(* fallback pass, and the registry operations of SectionNavigator.         *)
(*                                                                         *)
(* A text is a sequence of characters, each character a string.  The       *)
(* Arabic characters are named by their code point ("U0627"): the module   *)
(* language has no literal for them.                                       *)
(***************************************************************************)
EXTENDS Integers, Sequences, FiniteSets, TLC

(***************************************************************************)
(* Characters and the character classes of the patterns.                   *)
(***************************************************************************)
NL == "\n"

Lowers == <<"a","b","c","d","e","f","g","h","i","j","k","l","m",
            "n","o","p","q","r","s","t","u","v","w","x","y","z">>

Uppers == <<"A","B","C","D","E","F","G","H","I","J","K","L","M",
            "N","O","P","Q","R","S","T","U","V","W","X","Y","Z">>

Range(s) == {s[i] : i \in DOMAIN s}

\* [A-Z]
UpperClass == Range(Uppers)

\* [a-zA-Z]
LetterClass == Range(Lowers) \cup Range(Uppers)

\* the Arabic-Indic digits U+0660..U+0669, [٠-٩]
ArabicIndicDigits == {"U0660","U0661","U0662","U0663","U0664",
                      "U0665","U0666","U0667","U0668","U0669"}

\* \d of a str pattern: every Unicode decimal digit
DigitClass == {"0","1","2","3","4","5","6","7","8","9"} \cup ArabicIndicDigits

\* \s of a str pattern
SpaceClass == {" ", NL, "\t", "\r"}

\* [أ-ي], U+0623..U+064A: the letters of that range the texts use
ArabicLetterClass == {"U0623","U0627","U0628","U062A","U0629","U062F","U0633",
                      "U0635","U0637","U0642","U0641","U0644","U0645",
                      "U0646","U0642","U064A","U062D"}

\* [؀-ۿ], U+0600..U+06FF
ArabicBlockClass == ArabicLetterClass \cup ArabicIndicDigits

\* str.lower() of one character, for re.IGNORECASE
ToLower(c) ==
    IF c \in UpperClass
    THEN Lowers[CHOOSE i \in DOMAIN Uppers : Uppers[i] = c]
    ELSE c

(***************************************************************************)
(* Positions are 1-based; a match's end is the index after its last        *)
(* character.                                                              *)
(***************************************************************************)
MinOf(S) == CHOOSE x \in S : \A y \in S : x <= y

\* the first position q >= p whose character is not in class C (greedy C*)
Scan(t, p, C) ==
    LET stops == {q \in p..Len(t) : t[q] \notin C}
    IN IF stops = {} THEN Len(t) + 1 ELSE MinOf(stops)

\* (.*?)$ under re.MULTILINE: up to the next line break or the end of the text
LineEnd(t, p) ==
    LET stops == {q \in p..Len(t) : t[q] = NL}
    IN IF stops = {} THEN Len(t) + 1 ELSE MinOf(stops)

\* ^ under re.MULTILINE
IsLineStart(t, p) == p = 1 \/ t[p - 1] = NL

\* t[p-1:e-1] of the source, as a sequence
Slice(t, p, e) == SubSeq(t, p, e - 1)

\* whether the literal w stands at position p (ic: ignoring case)
LiteralAt(t, p, w, ic) ==
    /\ p + Len(w) - 1 <= Len(t)
    /\ \A i \in 1..Len(w) :
         IF ic THEN ToLower(t[p + i - 1]) = ToLower(w[i]) ELSE t[p + i - 1] = w[i]

\* the end of the first alternative of ws that stands at p, 0 when none does
AltEnd(t, p, ws, ic) ==
    LET hits == {i \in DOMAIN ws : LiteralAt(t, p, ws[i], ic)}
    IN IF hits = {} THEN 0 ELSE p + Len(ws[MinOf(hits)])

NoMatch == [ok |-> FALSE, start |-> 0, end |-> 0, groups |-> <<>>]

Matched(p, e, gs) == [ok |-> TRUE, start |-> p, end |-> e, groups |-> gs]

(***************************************************************************)
(* The patterns of load_document.  A pattern is written as its             *)
(* alternatives, each a sequence of items: one of several literal words    *)
(* (Words), a character class taken greedily at least min times (Many) or  *)
(* exactly once (One), and (.*?)$ (Rest).  g tells whether a capturing     *)
(* group opens before the item ("open"), closes after it ("close"), or     *)
(* both ("group").  Every pattern is anchored by ^ and ends in (.*?)$,     *)
(* which always succeeds, and the classes of adjacent items are disjoint   *)
(* wherever giving back a character could matter, so the greedy choice of  *)
(* each quantifier is the match the engine reports.                        *)
(***************************************************************************)
Words(ws, ic, g) == [kind |-> "words", words |-> ws, ic |-> ic, g |-> g]

Many(C, min, g) == [kind |-> "many", class |-> C, min |-> min, g |-> g]

One(C, g) == [kind |-> "one", class |-> C, g |-> g]

Rest(g) == [kind |-> "rest", g |-> g]

EnglishMarkers == << <<"A","r","t","i","c","l","e">>,
                     <<"S","e","c","t","i","o","n">>,
                     <<"C","h","a","p","t","e","r">> >>

ArabicMarkers == << <<"U0627","U0644","U0645","U0627","U062F","U0629">>,
                    <<"U0627","U0644","U0641","U0635","U0644">>,
                    <<"U0627","U0644","U0642","U0633","U0645">>,
                    <<"U0645","U0627","U062F","U0629">>,
                    <<"U0641","U0635","U0644">> >>

\* ^(Article|Section|Chapter)\s+(\d+[a-zA-Z]*)[:.\s]*(.*?)$   MULTILINE | IGNORECASE
SectionPattern1 ==
    << << Words(EnglishMarkers, TRUE, "group"),
          Many(SpaceClass, 1, ""),
          Many(DigitClass, 1, "open"),
          Many(LetterClass, 0, "close"),
          Many({":", "."} \cup SpaceClass, 0, ""),
          Rest("group") >> >>

\* ^(المادة|الفصل|القسم|مادة|فصل)\s*(\d+[٠-٩]*)[:.\s-]*(.*?)$   MULTILINE
SectionPattern2 ==
    << << Words(ArabicMarkers, FALSE, "group"),
          Many(SpaceClass, 0, ""),
          Many(DigitClass, 1, "open"),
          Many(ArabicIndicDigits, 0, "close"),
          Many({":", ".", "-"} \cup SpaceClass, 0, ""),
          Rest("group") >> >>

\* ^(\(\s*\d+\s*\)|\d+\s*[\.-])\s*(.*?)$   MULTILINE
SectionPattern3 ==
    << << One({"("}, "open"),
          Many(SpaceClass, 0, ""),
          Many(DigitClass, 1, ""),
          Many(SpaceClass, 0, ""),
          One({")"}, "close"),
          Many(SpaceClass, 0, ""),
          Rest("group") >>,
       << Many(DigitClass, 1, "open"),
          Many(SpaceClass, 0, ""),
          One({".", "-"}, "close"),
          Many(SpaceClass, 0, ""),
          Rest("group") >> >>

\* ^(\d+[a-zA-Z٠-٩]*)[\.\s-]+(.*?)$   MULTILINE
SubsectionPattern1 ==
    << << Many(DigitClass, 1, "open"),
          Many(LetterClass \cup ArabicIndicDigits, 0, "close"),
          Many({".", "-"} \cup SpaceClass, 1, ""),
          Rest("group") >> >>

\* ^(\(\s*[أ-ي١٢٣٤٥٦٧٨٩٠]\s*\))\s*(.*?)$   MULTILINE
SubsectionPattern2 ==
    << << One({"("}, "open"),
          Many(SpaceClass, 0, ""),
          One(ArabicLetterClass \cup ArabicIndicDigits, ""),
          Many(SpaceClass, 0, ""),
          One({")"}, "close"),
          Many(SpaceClass, 0, ""),
          Rest("group") >> >>

\* ^(\(\s*[أ-ي]\s*\))\s*(.*?)$   MULTILINE
SubsectionPattern3 ==
    << << One({"("}, "open"),
          Many(SpaceClass, 0, ""),
          One(ArabicLetterClass, ""),
          Many(SpaceClass, 0, ""),
          One({")"}, "close"),
          Many(SpaceClass, 0, ""),
          Rest("group") >> >>

\* ^(\d+)[\.:\s-](.*?)$   MULTILINE
FallbackPattern1 ==
    << << Many(DigitClass, 1, "group"),
          One({".", ":", "-"} \cup SpaceClass, ""),
          Rest("group") >> >>

\* ^([A-Z][A-Z\s]+|[؀-ۿ][؀-ۿ\s]+)[:\.\s-]*(.*?)$   MULTILINE
FallbackPattern2 ==
    << << One(UpperClass, "open"),
          Many(UpperClass \cup SpaceClass, 1, "close"),
          Many({":", ".", "-"} \cup SpaceClass, 0, ""),
          Rest("group") >>,
       << One(ArabicBlockClass, "open"),
          Many(ArabicBlockClass \cup SpaceClass, 1, "close"),
          Many({":", ".", "-"} \cup SpaceClass, 0, ""),
          Rest("group") >> >>

section_patterns == <<SectionPattern1, SectionPattern2, SectionPattern3>>

subsection_patterns == <<SubsectionPattern1, SubsectionPattern2, SubsectionPattern3>>

fallback_patterns == <<FallbackPattern1, FallbackPattern2>>

\* the position after item when it stands at p, 0 when it does not
ItemEnd(item, t, p) ==
    CASE item.kind = "words" -> AltEnd(t, p, item.words, item.ic)
      [] item.kind = "many"  -> IF Scan(t, p, item.class) - p >= item.min
                                THEN Scan(t, p, item.class) ELSE 0
      [] item.kind = "one"   -> IF p <= Len(t) /\ t[p] \in item.class THEN p + 1 ELSE 0
      [] item.kind = "rest"  -> LineEnd(t, p)

\* the items from the i-th on, standing at p; start is where the match began,
\* open where the group now open began, gs the groups closed so far
RECURSIVE MatchItems(_, _, _, _, _, _, _)
AfterItem(items, i, t, start, open, gs, q) ==
    IF q = 0
    THEN NoMatch
    ELSE MatchItems(items, i + 1, t, start, q, open,
                    IF items[i].g \in {"close", "group"}
                    THEN Append(gs, Slice(t, open, q)) ELSE gs)

MatchItems(items, i, t, start, p, open, gs) ==
    IF i > Len(items)
    THEN Matched(start, p, gs)
    ELSE AfterItem(items, i, t, start,
                   IF items[i].g \in {"open", "group"} THEN p ELSE open, gs,
                   ItemEnd(items[i], t, p))

\* the first alternative of the pattern, from the k-th on, that stands at p
RECURSIVE MatchAlternatives(_, _, _, _)
FirstMatch(pattern, k, t, p, m) ==
    IF m.ok THEN m ELSE MatchAlternatives(pattern, k + 1, t, p)

MatchAlternatives(pattern, k, t, p) ==
    IF k > Len(pattern)
    THEN NoMatch
    ELSE FirstMatch(pattern, k, t, p, MatchItems(pattern[k], 1, t, p, p, p, <<>>))

\* the pattern anchored at position p: ^ holds there and the pattern stands
MatchAt(pattern, t, p) ==
    IF IsLineStart(t, p) THEN MatchAlternatives(pattern, 1, t, p) ELSE NoMatch

\* pattern.finditer(t): the matches from position p on, leftmost first, each
\* search resuming where the match before it ended; ^ holds at the starts of
\* lines only, so a search that fails at p goes on after the next line break
RECURSIVE FindFrom(_, _, _)
FoundOrOn(pattern, t, p, m) ==
    IF m.ok
    THEN <<m>> \o FindFrom(pattern, t, m.end)
    ELSE FindFrom(pattern, t, LineEnd(t, p) + 1)

FindFrom(pattern, t, p) ==
    IF p > Len(t) THEN <<>> ELSE FoundOrOn(pattern, t, p, MatchAt(pattern, t, p))

finditer(pattern, t) == FindFrom(pattern, t, 1)

(***************************************************************************)
(* Strings of the source as character sequences.                           *)
(***************************************************************************)
\* str.strip()
Strip(s) ==
    LET keep == {i \in DOMAIN s : s[i] \notin SpaceClass}
    IN IF keep = {} THEN <<>>
       ELSE SubSeq(s, MinOf(keep), CHOOSE i \in keep : \A j \in keep : j <= i)

\* s[:n]
Take(s, n) == SubSeq(s, 1, IF Len(s) < n THEN Len(s) ELSE n)

DecimalDigits == <<"0","1","2","3","4","5","6","7","8","9">>

\* str(n) of a natural number, as an f-string formats it
RECURSIVE Str(_)
Str(n) == IF n < 10 THEN <<DecimalDigits[n + 1]>>
          ELSE Str(n \div 10) \o <<DecimalDigits[(n % 10) + 1]>>

Ellipsis == <<".", ".", ".">>

\* file_path.split("/")[-1]
LastSegment(path) ==
    LET cuts == {i \in DOMAIN path : path[i] = "/"}
    IN IF cuts = {} THEN path
       ELSE SubSeq(path, (CHOOSE i \in cuts : \A j \in cuts : j <= i) + 1, Len(path))

(***************************************************************************)
(* LegalSection.  A tree is an arena: a sequence of nodes, the root first; *)
(* parent and children hold indices into it, 0 standing for None.          *)
(***************************************************************************)
LegalSection(title, content, level, parent) ==
    [title |-> title, content |-> content, level |-> level, parent |-> parent,
     children |-> <<>>, source_doc |-> <<>>, page_num |-> 0]

\* an add_child that appends the child twice
add_child_twice(nodes, self, child) ==
    [nodes EXCEPT ![child].parent = self,
                  ![self].children = Append(Append(@, child), child)]

\* an add_child that puts the child first
add_child_first(nodes, self, child) ==
    [nodes EXCEPT ![child].parent = self,
                  ![self].children = <<child>> \o @]

\* self.add_child(child), self and child indices of the arena
add_child(nodes, self, child) ==
    [nodes EXCEPT ![child].parent = self,
                  ![self].children = Append(@, child)]

\* a node made by LegalSection(title, content, level, parent), then given its
\* source_doc and page_num, then handed to parent.add_child
Attach(nodes, title, content, level, parent, doc_name, page_num) ==
    LET new == [LegalSection(title, content, level, parent)
                   EXCEPT !.source_doc = doc_name, !.page_num = page_num]
        arena == Append(nodes, new)
    IN add_child(arena, parent, Len(arena))

\* LegalSection.get_full_path
RECURSIVE get_full_path(_, _)
get_full_path(nodes, n) ==
    IF nodes[n].parent = 0
    THEN nodes[n].title
    ELSE get_full_path(nodes, nodes[n].parent) \o <<" ", ">", " ">> \o nodes[n].title

(***************************************************************************)
(* load_document: the work done on one page.  A scan state s holds the     *)
(* locals of the call: the tree under construction (nodes, root at 1),     *)
(* current_section, current_subsection (0 for None), sections_found and,   *)
(* in the fallback pass, page_sections_found.                              *)
(***************************************************************************)
max_title_length == 50

\* lines 98-112: the title of a section match
SectionTitle(m) ==
    IF Len(m.groups) >= 3
    THEN LET section_type  == m.groups[1]
             section_num   == m.groups[2]
             section_title == Strip(m.groups[3])
         IN IF section_title # <<>>
            THEN section_type \o <<" ">> \o section_num \o <<":", " ">> \o section_title
            ELSE section_type \o <<" ">> \o section_num
    ELSE LET section_marker  == m.groups[1]
             section_content == IF Len(m.groups) > 1 THEN Strip(m.groups[2]) ELSE <<>>
         IN section_marker \o <<" ">> \o Take(section_content, 50) \o Ellipsis

\* a section match that leaves the current subsection as it was
OnSectionMatchKeepingSubsection(s, m, doc_name, page_num) ==
    IF Len(m.groups) >= 2
    THEN LET nodes == Attach(s.nodes, SectionTitle(m), <<>>, 1, 1, doc_name, page_num)
         IN [s EXCEPT !.sections_found = TRUE,
                      !.nodes = nodes,
                      !.current_section = Len(nodes)]
    ELSE [s EXCEPT !.sections_found = TRUE]

\* a section match that leaves sections_found as it was
OnSectionMatchUnflagged(s, m, doc_name, page_num) ==
    IF Len(m.groups) >= 2
    THEN LET nodes == Attach(s.nodes, SectionTitle(m), <<>>, 1, 1, doc_name, page_num)
         IN [s EXCEPT !.nodes = nodes,
                      !.current_section = Len(nodes),
                      !.current_subsection = 0]
    ELSE s

\* lines 94-124: the body of the loop over the matches of a section pattern
OnSectionMatch(s, m, doc_name, page_num) ==
    IF Len(m.groups) >= 2
    THEN LET nodes == Attach(s.nodes, SectionTitle(m), <<>>, 1, 1, doc_name, page_num)
         IN [s EXCEPT !.sections_found = TRUE,
                      !.nodes = nodes,
                      !.current_section = Len(nodes),
                      !.current_subsection = 0]
    ELSE [s EXCEPT !.sections_found = TRUE]

\* lines 136-138: the title of a subsection
SubsectionTitle(subsection_num, subsection_content) ==
    LET truncated_content ==
            Take(subsection_content, max_title_length)
                \o (IF Len(subsection_content) > max_title_length THEN Ellipsis ELSE <<>>)
    IN subsection_num \o <<" ">> \o truncated_content

\* a subsection match that nests under the current subsection when one is set
OnSubsectionMatchNested(s, m, doc_name, page_num) ==
    IF Len(m.groups) >= 2
    THEN LET subsection_num     == m.groups[1]
             subsection_content == Strip(m.groups[2])
             under == IF s.current_subsection # 0 THEN s.current_subsection
                      ELSE s.current_section
             nodes == Attach(s.nodes, SubsectionTitle(subsection_num, subsection_content),
                             subsection_content, 2, under, doc_name, page_num)
         IN [s EXCEPT !.nodes = nodes, !.current_subsection = Len(nodes)]
    ELSE s

\* lines 130-147: the body of the loop over the matches of a subsection pattern
OnSubsectionMatch(s, m, doc_name, page_num) ==
    IF Len(m.groups) >= 2
    THEN LET subsection_num     == m.groups[1]
             subsection_content == Strip(m.groups[2])
             nodes == Attach(s.nodes, SubsectionTitle(subsection_num, subsection_content),
                             subsection_content, 2, s.current_section, doc_name, page_num)
         IN [s EXCEPT !.nodes = nodes, !.current_subsection = Len(nodes)]
    ELSE s

\* line 192: the title of a fallback match
FallbackTitle(m) ==
    LET marker     == m.groups[1]
        title_text == IF Len(m.groups) > 1 THEN Strip(m.groups[2]) ELSE <<>>
    IN IF title_text # <<>>
       THEN marker \o <<":", " ">> \o Take(title_text, 50) \o Ellipsis
       ELSE marker

\* lines 185-198: the body of the loop over the matches of a fallback pattern
OnFallbackMatch(s, m, doc_name, page_num) ==
    IF Len(m.groups) >= 1
    THEN [s EXCEPT !.page_sections_found = TRUE,
                   !.nodes = Attach(s.nodes, FallbackTitle(m), <<>>, 1, 1, doc_name, page_num)]
    ELSE [s EXCEPT !.page_sections_found = TRUE]

OnMatch(kind, s, m, doc_name, page_num) ==
    CASE kind = "section"    -> OnSectionMatch(s, m, doc_name, page_num)
      [] kind = "subsection" -> OnSubsectionMatch(s, m, doc_name, page_num)
      [] kind = "fallback"   -> OnFallbackMatch(s, m, doc_name, page_num)

\* for match in matches: ...
RECURSIVE ForMatches(_, _, _, _, _)
ForMatches(kind, s, matches, doc_name, page_num) ==
    IF matches = <<>>
    THEN s
    ELSE ForMatches(kind, OnMatch(kind, s, Head(matches), doc_name, page_num),
                    Tail(matches), doc_name, page_num)

\* for pattern in patterns: for match in pattern.finditer(text): ...
RECURSIVE ForPatterns(_, _, _, _, _, _)
ForPatterns(kind, s, patterns, text, doc_name, page_num) ==
    IF patterns = <<>>
    THEN s
    ELSE ForPatterns(kind,
                     ForMatches(kind, s, finditer(Head(patterns), text), doc_name, page_num),
                     Tail(patterns), text, doc_name, page_num)

\* a scan that appends every page text to the root
AppendToRoot(s, text) ==
    [s EXCEPT !.nodes[1].content = @ \o <<NL>> \o text]

\* lines 151-157: the page text goes to the deepest cursor that is set
AppendPageText(s, text) ==
    LET target == IF s.current_subsection # 0 THEN s.current_subsection
                  ELSE IF s.current_section # 0 THEN s.current_section
                  ELSE 1
    IN [s EXCEPT !.nodes[target].content = @ \o <<NL>> \o text]

\* lines 126-147: the subsection patterns run only when a section is current
SubsectionPass(s, text, doc_name, page_num) ==
    IF s.current_section # 0
    THEN ForPatterns("subsection", s, subsection_patterns, text, doc_name, page_num)
    ELSE s

\* lines 89-157: one iteration of the primary loop
ScanPrimaryPage(s, text, doc_name, page_num) ==
    AppendPageText(
        SubsectionPass(
            ForPatterns("section", s, section_patterns, text, doc_name, page_num),
            text, doc_name, page_num),
        text)

\* a page title that numbers the pages as enumerate does, from 0
PageTitleFromZero(page_num) == <<"U0635", "U0641", "U062D", "U0629", " ">> \o Str(page_num)

\* line 203: the title of a page bucket
PageTitle(page_num) == <<"U0635", "U0641", "U062D", "U0629", " ">> \o Str(page_num + 1)

\* a fallback pass that never makes a page bucket
NoPageBucket(s, text, doc_name, page_num) == s

\* a page bucket made without the text of its page
PageBucketWithoutText(s, text, doc_name, page_num) ==
    IF ~s.page_sections_found /\ ~s.sections_found
    THEN [s EXCEPT !.nodes = Attach(s.nodes, PageTitle(page_num), <<>>, 1, 1, doc_name, page_num),
                   !.sections_found = TRUE]
    ELSE s

\* a page bucket for every page without a fallback match
PageBucketEveryPage(s, text, doc_name, page_num) ==
    IF ~s.page_sections_found
    THEN [s EXCEPT !.nodes = Attach(s.nodes, PageTitle(page_num), text, 1, 1, doc_name, page_num)]
    ELSE s

\* lines 201-210: the page bucket
PageBucket(s, text, doc_name, page_num) ==
    IF ~s.page_sections_found /\ ~s.sections_found
    THEN [s EXCEPT !.nodes = Attach(s.nodes, PageTitle(page_num), text, 1, 1, doc_name, page_num),
                   !.sections_found = TRUE]
    ELSE s

\* lines 180-210: one iteration of the fallback loop
ScanFallbackPage(s, text, doc_name, page_num) ==
    PageBucket(
        ForPatterns("fallback", [s EXCEPT !.page_sections_found = FALSE],
                    fallback_patterns, text, doc_name, page_num),
        text, doc_name, page_num)

\* lines 56-57 and 84-86: the locals of a call before the first page
NewScan(doc_name) ==
    [nodes |-> <<[LegalSection(doc_name, <<>>, 0, 0) EXCEPT !.source_doc = doc_name]>>,
     current_section |-> 0,
     current_subsection |-> 0,
     sections_found |-> FALSE,
     page_sections_found |-> FALSE]

(***************************************************************************)
(* The inputs: page texts as page.get_text() may return them, documents    *)
(* as sequences of pages, file paths.                                      *)
(***************************************************************************)

Article ==
    <<"A","r","t","i","c","l","e">>

Section ==
    <<"S","e","c","t","i","o","n">>

Scope ==
    <<"S","c","o","p","e">>

Prose ==
    <<"T","h","i","s"," ","l","a","w"," ","a","p","p","l","i","e","s">>

FirstCondition ==
    <<"F","i","r","s","t"," ","c","o","n","d","i","t","i","o","n">>

SecondCondition ==
    <<"S","e","c","o","n","d"," ","c","o","n","d","i","t","i","o","n">>

\* a subsection content of exactly max_title_length characters, and one longer
FiftyCondition == [i \in 1..50 |-> IF i % 7 = 0 THEN " " ELSE "c"]

LongCondition == FiftyCondition \o <<"d">>

MarkerTypes == {Article, Section}

MarkerNumbers == {<<"1">>}

MarkerHeadings == {<<>>, Scope}

MarkerBodies == {<<>>, Prose}

\* the line "<type> <number>: <heading>", "<type> <number>" when there is no heading
MarkerLine(type, number, heading) ==
    type \o <<" ">> \o number \o (IF heading = <<>> THEN <<>> ELSE <<":", " ">> \o heading)

\* a page whose only marker is that line, followed by the unmarked line body
MarkerPage(type, number, heading, body) ==
    MarkerLine(type, number, heading) \o (IF body = <<>> THEN <<>> ELSE <<NL>> \o body)

MarkerPages ==
    {MarkerPage(ty, n, h, b) : ty \in MarkerTypes, n \in MarkerNumbers,
                               h \in MarkerHeadings, b \in MarkerBodies}

ConditionContents == {SecondCondition, FiftyCondition, LongCondition}

\* Scenario C: a page of the two subsection markers "1. <c1>" and "2. <c2>"
ConditionsPage(c1, c2) ==
    <<"1", ".", " ">> \o c1 \o <<NL, "2", ".", " ">> \o c2

ConditionsPages == {ConditionsPage(FirstCondition, c) : c \in ConditionContents}


\* Scenario B
ArabicArticle ==
    <<"U0627","U0644","U0645","U0627","U062F","U0629"," ","5"," ","U0646","U0637",
      "U0627","U0642"," ","U0627","U0644","U062A","U0637","U0628","U064A","U0642">>

\* an Arabic lettered line
ArabicLetter ==
    <<"(","U0623",")"," ","U0646","U0635">>

\* a capitalised line
Heading ==
    <<"G","E","N","E","R","A","L"," ","P","R","O","V","I","S","I","O","N","S">>

\* a line that starts with a number and a space
Counted ==
    <<"1","2"," ","i","t","e","m","s">>

\* a heading that holds the separator of paths
Arrow ==
    <<"A","r","t","i","c","l","e"," ","4",":"," ","a"," ",">"," ","b">>

EmptyPage == <<>>

\* a numbered line followed by a marker line of another pattern
NumberedThenArticle ==
    <<"1", ".", " ">> \o FirstCondition \o <<NL>> \o MarkerLine(Article, <<"2">>, Scope)

\* a bracketed number line followed by a marker line of an earlier pattern
BracketedThenArticle ==
    <<"(", "1", ")", " ">> \o FirstCondition \o <<NL>> \o MarkerLine(Article, <<"2">>, Scope)

PageVocab ==
    MarkerPages \cup ConditionsPages
        \cup {Prose, EmptyPage, ArabicArticle, ArabicLetter, Heading, Counted,
              NumberedThenArticle, BracketedThenArticle}

MaxPages == 2

\* the documents of at most n pages over a set of page texts
DocsUpTo(pages, n) == UNION {[1..k -> pages] : k \in 0..n}

\* the documents the parser is run on
ParseDocs == DocsUpTo(PageVocab, MaxPages)

ArticleScope == MarkerPage(Article, <<"1">>, Scope, Prose)

\* the documents the navigator is run on: no page at all, the same marker on two
\* pages, no marker, and a heading that holds " > "
NavDocs ==
    {<<>>, <<ArticleScope, ArticleScope>>, <<Prose>>, <<Arrow>>}

PathA == <<"a", ".", "p", "d", "f">>

PathDA == <<"d", "/", "a", ".", "p", "d", "f">>

PathB == <<"b", ".", "p", "d", "f">>

\* file paths: two of them name the same document
Paths == {PathA, PathDA, PathB}

DocNames == {LastSegment(path) : path \in Paths}

\* the callers of load_document: 1 is the script of the application, which
\* makes every call of Spec; 2 is a second thread, which calls in ThreadSpec
Loaders == {1, 2}

Main == {1}

MaxBatch == 2

\* the calls of load_document in one run
MaxLoads == 3

(***************************************************************************)
(* The state.                                                              *)
(*   documents        self.documents, a dict: its entries in insertion     *)
(*                    order, each a key and the tree it maps to (id: the   *)
(*                    identity of the root object; doc: the pages the tree *)
(*                    was read from, kept for the properties)              *)
(*   current_doc      self.current_doc                                     *)
(*   current_section  self.current_section, a reference to a node          *)
(*   ld               per caller, the call of load_document in progress    *)
(*   batch            the call of load_documents in progress               *)
(*   ret              what the call that returned last returned            *)
(*   calls            the number of calls of load_document so far, which   *)
(*                    numbers the root objects                             *)
(***************************************************************************)
VARIABLES documents, current_doc, current_section, ld, batch, ret, calls

vars == <<documents, current_doc, current_section, ld, batch, ret, calls>>

None == <<"None">>

NoRef == [tree |-> 0, node |-> 0]

Ref(tree, node) == [tree |-> tree, node |-> node]

\* dict operations on the sequence of entries
Keys(d) == [i \in DOMAIN d |-> d[i].key]

Has(d, k) == \E i \in DOMAIN d : d[i].key = k

Get(d, k) == d[CHOOSE i \in DOMAIN d : d[i].key = k].root

\* a dict whose assignment moves a known key to the end
PutLast(d, k, root) ==
    SelectSeq(d, LAMBDA e : e.key # k) \o <<[key |-> k, root |-> root]>>

\* d[k] = root: a new key goes last, a known key keeps its place
Put(d, k, root) ==
    IF Has(d, k)
    THEN [i \in DOMAIN d |-> IF d[i].key = k THEN [key |-> k, root |-> root] ELSE d[i]]
    ELSE Append(d, [key |-> k, root |-> root])

\* del d[k]
Del(d, k) ==
    LET i == CHOOSE j \in DOMAIN d : d[j].key = k
    IN SubSeq(d, 1, i - 1) \o SubSeq(d, i + 1, Len(d))

IdleLoader ==
    [pc |-> "idle", file_path |-> <<>>, doc_name |-> <<>>, doc |-> <<>>,
     page_num |-> 0, id |-> 0, s |-> NewScan(<<>>), before |-> <<>>]

NoBatch == [active |-> FALSE, file_paths |-> <<>>, i |-> 0, success_count |-> 0, log |-> <<>>]

NoRet == [op |-> "none"]

\* SectionNavigator.__init__, one caller
Init ==
    /\ documents = <<>>
    /\ current_doc = None
    /\ current_section = NoRef
    /\ ld = [l \in Loaders |-> IdleLoader]
    /\ batch = NoBatch
    /\ ret = NoRet
    /\ calls = 0

Idle == \A l \in Loaders : ld[l].pc = "idle"

\* a load_documents that gives up at the first path that fails
AbortOnFailure(b, file_path, result) ==
    [b EXCEPT !.i = IF result THEN @ + 1 ELSE Len(b.file_paths) + 1,
              !.success_count = IF result THEN @ + 1 ELSE @,
              !.log = Append(@, [file_path |-> file_path, result |-> result])]

\* lines 237-239: the body of the loop of load_documents once load_document has
\* returned result for file_path; log keeps the calls made, for the properties
CountSuccess(b, file_path, result) ==
    [b EXCEPT !.i = @ + 1,
              !.success_count = IF result THEN @ + 1 ELSE @,
              !.log = Append(@, [file_path |-> file_path, result |-> result])]

\* load_document(file_path) returns result to its caller: to load_documents when
\* the call is one of its own, to the application otherwise
Return(l, file_path, result, before) ==
    /\ ld' = [ld EXCEPT ![l] = IdleLoader]
    /\ ret' = [op |-> "load_document", arg |-> file_path, val |-> result,
               before |-> before]
    /\ IF batch.active /\ l = 1
       THEN batch' = CountSuccess(batch, file_path, result)
       ELSE UNCHANGED batch

\* a call whose sections_found is left over from the calls before it
StaleLoader(file_path, doc, id, before) ==
    [pc |-> "scan", file_path |-> file_path, doc_name |-> LastSegment(file_path),
     doc |-> doc, page_num |-> 0, id |-> id,
     s |-> [NewScan(LastSegment(file_path)) EXCEPT !.sections_found = before # <<>>],
     before |-> before]

\* a call that goes on with the root object registered under its name
LoaderOnOldRoot(file_path, doc, id, before) ==
    [pc |-> "scan", file_path |-> file_path, doc_name |-> LastSegment(file_path),
     doc |-> doc, page_num |-> 0,
     id |-> IF Has(before, LastSegment(file_path))
            THEN Get(before, LastSegment(file_path)).id ELSE id,
     s |-> IF Has(before, LastSegment(file_path))
           THEN [NewScan(LastSegment(file_path))
                    EXCEPT !.nodes = Get(before, LastSegment(file_path)).nodes]
           ELSE NewScan(LastSegment(file_path)),
     before |-> before]

\* lines 52-57, 84-86: the locals of load_document(file_path) once fitz.open has
\* returned doc; id is the identity of the new root, before the registry as the
\* call found it
NewLoader(file_path, doc, id, before) ==
    [pc |-> "scan", file_path |-> file_path, doc_name |-> LastSegment(file_path),
     doc |-> doc, page_num |-> 0, id |-> id,
     s |-> NewScan(LastSegment(file_path)), before |-> before]

\* lines 52-57, 84-86: load_document(file_path) up to the first page; opened is
\* whether fitz.open succeeded, doc the pages of the file it opened
LoadOpen(l, file_path, opened, doc) ==
    /\ ld[l].pc = "idle"
    /\ calls < MaxLoads
    /\ calls' = calls + 1
    /\ opened \/ doc = <<>>
    /\ IF batch.active
       THEN l = 1 /\ batch.i <= Len(batch.file_paths) /\ file_path = batch.file_paths[batch.i]
       ELSE TRUE
    /\ IF opened
       THEN /\ ld' = [ld EXCEPT ![l] = NewLoader(file_path, doc, calls + 1, documents)]
            /\ ret' = NoRet
            /\ UNCHANGED batch
       ELSE Return(l, file_path, FALSE, documents)
    /\ UNCHANGED <<documents, current_doc, current_section>>

\* lines 88-157: one page of the primary loop; read is whether the iteration ran
\* without an exception (page.get_text() or a pattern raising ends the call at
\* line 226: no handler stands inside the loop)
ScanPage(l, read) ==
    /\ ld[l].pc = "scan"
    /\ ld[l].page_num < Len(ld[l].doc)
    /\ IF read
       THEN /\ ld' = [ld EXCEPT
                        ![l].s = ScanPrimaryPage(@, ld[l].doc[ld[l].page_num + 1],
                                                 ld[l].doc_name, ld[l].page_num),
                        ![l].page_num = @ + 1]
            /\ ret' = NoRet
            /\ UNCHANGED batch
       ELSE Return(l, ld[l].file_path, FALSE, ld[l].before)
    /\ UNCHANGED <<documents, current_doc, current_section, calls>>

\* a fallback pass that starts whatever the primary pass found
BeginFallbackAlways(l) ==
    /\ ld[l].pc = "scan"
    /\ ld[l].page_num = Len(ld[l].doc)
    /\ ld' = [ld EXCEPT ![l].pc = "fallback", ![l].page_num = 0]
    /\ ret' = NoRet
    /\ UNCHANGED <<documents, current_doc, current_section, batch, calls>>

\* lines 160-177: after the last page, no section found: the fallback pass starts
BeginFallback(l) ==
    /\ ld[l].pc = "scan"
    /\ ld[l].page_num = Len(ld[l].doc)
    /\ ~ld[l].s.sections_found
    /\ ld' = [ld EXCEPT ![l].pc = "fallback", ![l].page_num = 0]
    /\ ret' = NoRet
    /\ UNCHANGED <<documents, current_doc, current_section, batch, calls>>

\* lines 179-210: one page of the fallback loop
FallbackPage(l, read) ==
    /\ ld[l].pc = "fallback"
    /\ ld[l].page_num < Len(ld[l].doc)
    /\ IF read
       THEN /\ ld' = [ld EXCEPT
                        ![l].s = ScanFallbackPage(@, ld[l].doc[ld[l].page_num + 1],
                                                  ld[l].doc_name, ld[l].page_num),
                        ![l].page_num = @ + 1]
            /\ ret' = NoRet
            /\ UNCHANGED batch
       ELSE Return(l, ld[l].file_path, FALSE, ld[l].before)
    /\ UNCHANGED <<documents, current_doc, current_section, calls>>

\* a store that leaves the new entry alone in the registry
StoreAlone(l) ==
    /\ \/ ld[l].pc = "scan" /\ ld[l].s.sections_found
       \/ ld[l].pc = "fallback"
    /\ ld[l].page_num = Len(ld[l].doc)
    /\ documents' = <<[key |-> ld[l].doc_name,
                       root |-> [id |-> ld[l].id, nodes |-> ld[l].s.nodes, doc |-> ld[l].doc]]>>
    /\ ld' = [ld EXCEPT ![l].pc = "close"]
    /\ ret' = NoRet
    /\ UNCHANGED <<current_doc, current_section, batch, calls>>

\* line 213: self.documents[doc_name] = root
Store(l) ==
    /\ \/ ld[l].pc = "scan" /\ ld[l].s.sections_found
       \/ ld[l].pc = "fallback"
    /\ ld[l].page_num = Len(ld[l].doc)
    /\ documents' = Put(documents, ld[l].doc_name,
                        [id |-> ld[l].id, nodes |-> ld[l].s.nodes, doc |-> ld[l].doc])
    /\ ld' = [ld EXCEPT ![l].pc = "close"]
    /\ ret' = NoRet
    /\ UNCHANGED <<current_doc, current_section, batch, calls>>

\* lines 216-229: doc.close(), then return True; closed is whether doc.close()
\* returned (an exception ends the call at line 226, with False)
Close(l, closed) ==
    /\ ld[l].pc = "close"
    /\ Return(l, ld[l].file_path, closed, ld[l].before)
    /\ UNCHANGED <<documents, current_doc, current_section, calls>>

\* lines 236-237: load_documents(file_paths) begins
LoadDocuments(file_paths) ==
    /\ Idle
    /\ ~batch.active
    /\ calls + Len(file_paths) <= MaxLoads
    /\ batch' = [active |-> TRUE, file_paths |-> file_paths, i |-> 1,
                 success_count |-> 0, log |-> <<>>]
    /\ ret' = NoRet
    /\ UNCHANGED <<documents, current_doc, current_section, ld, calls>>

\* line 240: load_documents returns success_count
LoadDocumentsReturn ==
    /\ batch.active
    /\ ld[1].pc = "idle"
    /\ batch.i > Len(batch.file_paths)
    /\ ret' = [op |-> "load_documents", arg |-> batch.file_paths,
               val |-> batch.success_count, log |-> batch.log]
    /\ batch' = NoBatch
    /\ UNCHANGED <<documents, current_doc, current_section, ld, calls>>

(***************************************************************************)
(* The lookups of SectionNavigator.  They run between the calls of         *)
(* load_document and load_documents: the navigator has one caller.         *)
(***************************************************************************)
PathSeparator == <<" ", ">", " ">>

\* s.split(sep) from position p on, the part under way having begun at from
RECURSIVE SplitFrom(_, _, _, _)
SplitFrom(s, sep, p, from) ==
    IF p + Len(sep) - 1 > Len(s)
    THEN <<SubSeq(s, from, Len(s))>>
    ELSE IF LiteralAt(s, p, sep, FALSE)
         THEN <<SubSeq(s, from, p - 1)>> \o SplitFrom(s, sep, p + Len(sep), p + Len(sep))
         ELSE SplitFrom(s, sep, p + 1, from)

Split(s, sep) == SplitFrom(s, sep, 1, 1)

\* lines 277-282: the first child of section titled title, 0 when there is none
FindChild(nodes, section, title) ==
    LET hits == {k \in DOMAIN nodes[section].children :
                    nodes[nodes[section].children[k]].title = title}
    IN IF hits = {} THEN 0 ELSE nodes[section].children[MinOf(hits)]

\* lines 276-285: the walk down parts[i:], 0 once a part is not found
RECURSIVE Descend(_, _, _, _)
Descend(nodes, section, parts, i) ==
    IF section = 0 \/ i > Len(parts)
    THEN section
    ELSE Descend(nodes, FindChild(nodes, section, parts[i]), parts, i + 1)

Returned(op, arg, val) == [op |-> op, arg |-> arg, val |-> val, raised |-> FALSE]

Raised(op, arg) == [op |-> op, arg |-> arg, val |-> NoRef, raised |-> TRUE]

CanLookUp == Idle /\ ~batch.active

\* lines 242-244
GetDocuments ==
    /\ CanLookUp
    /\ ret' = Returned("get_documents", <<>>, Keys(documents))
    /\ UNCHANGED <<documents, current_doc, current_section, ld, batch, calls>>

\* lines 246-252
SelectDocument(doc_name) ==
    /\ CanLookUp
    /\ IF Has(documents, doc_name)
       THEN /\ current_doc' = doc_name
            /\ current_section' = Ref(Get(documents, doc_name).id, 1)
            /\ ret' = Returned("select_document", doc_name, current_section')
       ELSE /\ ret' = Returned("select_document", doc_name, NoRef)
            /\ UNCHANGED <<current_doc, current_section, calls>>
    /\ UNCHANGED <<documents, ld, batch, calls>>

\* lines 254-258: the children of the root, as references
GetSections(doc_name) ==
    /\ CanLookUp
    /\ ret' = Returned("get_sections", doc_name,
                       IF Has(documents, doc_name)
                       THEN [k \in DOMAIN Get(documents, doc_name).nodes[1].children |->
                               Ref(Get(documents, doc_name).id,
                                   Get(documents, doc_name).nodes[1].children[k])]
                       ELSE <<>>)
    /\ UNCHANGED <<documents, current_doc, current_section, ld, batch, calls>>

\* a select_section that clears the selection when a part is not found
SelectInClearingOnMiss(root, section_path, found) ==
    IF Len(Split(section_path, PathSeparator)) < 2
    THEN /\ ret' = Returned("select_section", section_path, Ref(root.id, 1))
         /\ UNCHANGED current_section
    ELSE IF found = 0
         THEN /\ ret' = Returned("select_section", section_path, NoRef)
              /\ current_section' = NoRef
         ELSE /\ current_section' = Ref(root.id, found)
              /\ ret' = Returned("select_section", section_path, Ref(root.id, found))

\* lines 268-288, current_doc a key of the registry: root is its tree
SelectIn(root, section_path, found) ==
    IF Len(Split(section_path, PathSeparator)) < 2
    THEN /\ ret' = Returned("select_section", section_path, Ref(root.id, 1))
         /\ UNCHANGED current_section
    ELSE IF found = 0
         THEN /\ ret' = Returned("select_section", section_path, NoRef)
              /\ UNCHANGED current_section
         ELSE /\ current_section' = Ref(root.id, found)
              /\ ret' = Returned("select_section", section_path, Ref(root.id, found))

\* lines 260-288; self.documents[self.current_doc] raises KeyError for a key
\* the registry does not hold
SelectSection(section_path) ==
    /\ CanLookUp
    /\ IF current_doc = None
       THEN /\ ret' = Returned("select_section", section_path, NoRef)
            /\ UNCHANGED current_section
       ELSE IF ~Has(documents, current_doc)
            THEN /\ ret' = Raised("select_section", section_path)
                 /\ UNCHANGED current_section
            ELSE SelectIn(Get(documents, current_doc), section_path,
                          Descend(Get(documents, current_doc).nodes, 1,
                                  Split(section_path, PathSeparator), 2))
    /\ UNCHANGED <<documents, current_doc, ld, batch, calls>>

\* lines 313-419: render_section_navigator with selected_doc chosen in the
\* selectbox; the button is shown when the document has no section, and
\* pressing it deletes the document (doc_path is None: nothing is loaded again)
RemoveDocument(selected_doc) ==
    /\ CanLookUp
    /\ Has(documents, selected_doc)
    /\ Get(documents, selected_doc).nodes[1].children = <<>>
    /\ documents' = Del(documents, selected_doc)
    /\ ret' = NoRet
    /\ UNCHANGED <<current_doc, current_section, ld, batch, calls>>

(***************************************************************************)
(* The arguments the lookups are called with.                              *)
(***************************************************************************)
UnknownName == <<"x">>

ArticleThree == <<"A", "r", "t", "i", "c", "l", "e", " ", "3">>

\* the full paths of the nodes of the registered trees
FullPaths ==
    UNION {{get_full_path(documents[i].root.nodes, n) :
               n \in DOMAIN documents[i].root.nodes} : i \in DOMAIN documents}

\* the titles of the top-level sections of the registered trees
TopTitles ==
    UNION {{documents[i].root.nodes[n].title :
               n \in Range(documents[i].root.nodes[1].children)} : i \in DOMAIN documents}

\* paths to select: every node's full path, each of them with a last segment
\* that no node is titled with, and paths whose first segment is no root's title
SectionPaths ==
    FullPaths
        \cup {path \o PathSeparator \o ArticleThree : path \in FullPaths}
        \cup {UnknownName}
        \cup {UnknownName \o PathSeparator \o title : title \in TopTitles}

\* the lists load_documents is called with
BatchInputs == DocsUpTo(Paths, MaxBatch)

(***************************************************************************)
(* One call of load_document on a new navigator, every step succeeding,    *)
(* and get_sections on what it stored.                                     *)
(***************************************************************************)
ParseNext ==
    \/ \E doc \in ParseDocs : calls = 0 /\ LoadOpen(1, PathA, TRUE, doc)
    \/ ScanPage(1, TRUE)
    \/ BeginFallback(1)
    \/ FallbackPage(1, TRUE)
    \/ Store(1)
    \/ Close(1, TRUE)
    \/ documents # <<>> /\ GetSections(LastSegment(PathA))

ParseSpec == Init /\ [][ParseNext]_vars

(***************************************************************************)
(* The navigator and its one caller.                                       *)
(***************************************************************************)
Next ==
    \/ \E l \in Main, file_path \in Paths, opened \in BOOLEAN, doc \in NavDocs :
          LoadOpen(l, file_path, opened, doc)
    \/ \E l \in Main, read \in BOOLEAN : ScanPage(l, read)
    \/ \E l \in Main : BeginFallback(l)
    \/ \E l \in Main, read \in BOOLEAN : FallbackPage(l, read)
    \/ \E l \in Main : Store(l)
    \/ \E l \in Main, closed \in BOOLEAN : Close(l, closed)
    \/ \E file_paths \in BatchInputs : LoadDocuments(file_paths)
    \/ LoadDocumentsReturn
    \/ GetDocuments
    \/ \E doc_name \in DocNames \cup {UnknownName} : SelectDocument(doc_name)
    \/ \E doc_name \in DocNames \cup {UnknownName} : GetSections(doc_name)
    \/ \E section_path \in SectionPaths : SelectSection(section_path)
    \/ \E selected_doc \in DocNames : RemoveDocument(selected_doc)

Spec == Init /\ [][Next]_vars

(***************************************************************************)
(* Two threads that call load_document on one navigator, every step        *)
(* succeeding: a thread is switched between two pages at the earliest,     *)
(* the locals of a call being its own.                                     *)
(***************************************************************************)
ThreadDocs == {<<ArticleScope, ArticleScope>>, <<Prose>>}

ThreadPaths == {PathA, PathB}

ThreadNext ==
    \/ \E l \in Loaders, file_path \in ThreadPaths, doc \in ThreadDocs :
          LoadOpen(l, file_path, TRUE, doc)
    \/ \E l \in Loaders : ScanPage(l, TRUE)
    \/ \E l \in Loaders : BeginFallback(l)
    \/ \E l \in Loaders : FallbackPage(l, TRUE)
    \/ \E l \in Loaders : Store(l)
    \/ \E l \in Loaders : Close(l, TRUE)

ThreadSpec == Init /\ [][ThreadNext]_vars

(***************************************************************************)
(* Properties.  A tree of the registry is documents[i].root: nodes is its  *)
(* arena, the root at 1, and doc the pages it was read from.               *)
(***************************************************************************)
Children(nodes, n) == Range(nodes[n].children)

\* whether some page of doc holds text
HasText(doc) == \E k \in DOMAIN doc : doc[k] # <<>>

\* C1: after load_document has succeeded on a document with a page of non-empty
\* text, get_sections for it returns a non-empty list, the children of the root,
\* each a level-1 node under the root.
C1_SectionsNonEmpty ==
    \A i \in DOMAIN documents :
        (/\ ret.op = "get_sections"
         /\ ret.arg = documents[i].key
         /\ HasText(documents[i].root.doc))
        => /\ ret.val # <<>>
           /\ \A k \in DOMAIN ret.val :
                /\ ret.val[k] = Ref(documents[i].root.id, documents[i].root.nodes[1].children[k])
                /\ documents[i].root.nodes[ret.val[k].node].level = 1
                /\ documents[i].root.nodes[ret.val[k].node].parent = 1

\* get_sections has returned the one page bucket of a page of prose
C1_Witness ==
    /\ ret.op = "get_sections"
    /\ Len(documents) = 1
    /\ documents[1].root.doc = <<Prose>>
    /\ ret.arg = documents[1].key
    /\ Len(ret.val) = 1
    /\ documents[1].root.nodes[ret.val[1].node].title = PageTitle(0)

\* the places where node n is listed as a child: pairs of a node and an index
\* into its children
Listings(nodes, n) ==
    {pk \in UNION {{<<p, k>> : k \in DOMAIN nodes[p].children} : p \in DOMAIN nodes} :
        nodes[pk[1]].children[pk[2]] = n}

\* C2: in every tree of the registry, every node other than the root is listed
\* as a child exactly once, by the node its parent field refers to.
C2_OneParent ==
    \A i \in DOMAIN documents :
        \A n \in 2..Len(documents[i].root.nodes) :
            /\ Cardinality(Listings(documents[i].root.nodes, n)) = 1
            /\ documents[i].root.nodes[n].parent \in DOMAIN documents[i].root.nodes
            /\ \A pk \in Listings(documents[i].root.nodes, n) :
                 pk[1] = documents[i].root.nodes[n].parent

\* a stored tree with a section under the root and a subsection under a section
C2_Witness ==
    \E i \in DOMAIN documents :
        \E n \in DOMAIN documents[i].root.nodes :
            /\ documents[i].root.nodes[n].level = 2
            /\ documents[i].root.nodes[n].parent # 1
            /\ documents[i].root.nodes[documents[i].root.nodes[n].parent].parent = 1

\* C3: whenever load_document returns False, the registry is what it was when
\* the call began.
C3_FailedLoadLeavesRegistry ==
    (ret.op = "load_document" /\ ret.val = FALSE) => documents = ret.before

\* C4: load_documents calls load_document for every path of its list, in order,
\* whatever the earlier calls returned, and returns the number of calls that
\* returned True; while it runs, the calls made are those for the paths before
\* the one it has reached.
C4_BatchCountsSuccesses ==
    /\ batch.active =>
          /\ Len(batch.log) = batch.i - 1
          /\ \A k \in DOMAIN batch.log : batch.log[k].file_path = batch.file_paths[k]
    /\ ret.op = "load_documents" =>
          /\ Len(ret.log) = Len(ret.arg)
          /\ \A k \in DOMAIN ret.log : ret.log[k].file_path = ret.arg[k]
          /\ ret.val = Cardinality({k \in DOMAIN ret.log : ret.log[k].result})

\* load_documents has returned 1 for two paths, the first of which failed
C4_Witness ==
    /\ ret.op = "load_documents"
    /\ Len(ret.arg) = 2
    /\ Len(ret.log) = 2
    /\ ~ret.log[1].result
    /\ ret.log[2].result
    /\ ret.val = 1

\* C5: with a registered document selected as current, select_section on the
\* full path of a child c of its root returns that very node c.
C5_PathRoundTrip ==
    \A i \in DOMAIN documents :
        (ret.op = "select_section" /\ current_doc = documents[i].key)
        => \A c \in Children(documents[i].root.nodes, 1) :
              ret.arg = get_full_path(documents[i].root.nodes, c)
              => (~ret.raised /\ ret.val = Ref(documents[i].root.id, c))

\* whether some segment of path after the first matches no child title at its
\* level in the current document (a document that is not registered has no
\* node to match)
NoSuchSection(path) ==
    /\ Len(Split(path, PathSeparator)) >= 2
    /\ \/ current_doc = None
       \/ ~Has(documents, current_doc)
       \/ Descend(Get(documents, current_doc).nodes, 1, Split(path, PathSeparator), 2) = 0

\* C6: select_section on a path with a segment that matches no child title at
\* its level returns None and does not raise.
C6_NotFoundIsNone ==
    (ret.op = "select_section" /\ NoSuchSection(ret.arg))
    => (~ret.raised /\ ret.val = NoRef)

\* a tree without what the file name puts into it: the title of the root and
\* the source_doc of every node
Shape(nodes) ==
    [n \in DOMAIN nodes |->
        [nodes[n] EXCEPT !.source_doc = <<>>, !.title = IF n = 1 THEN <<>> ELSE @]]

\* whether the call of load_document under way has built all of its tree
Finished(l) ==
    \/ ld[l].pc = "close"
    \/ /\ ld[l].page_num = Len(ld[l].doc)
       /\ \/ ld[l].pc = "scan" /\ ld[l].s.sections_found
          \/ ld[l].pc = "fallback"

\* C7: two loads of the same sequence of page texts produce the same tree,
\* whatever was loaded before: node for node the same titles, nesting, levels,
\* page numbers and content, the file name showing in the root's title and in
\* source_doc only.
C7_Deterministic ==
    /\ \A i, j \in DOMAIN documents :
          documents[i].root.doc = documents[j].root.doc
          => Shape(documents[i].root.nodes) = Shape(documents[j].root.nodes)
    /\ \A l \in Loaders : \A i \in DOMAIN documents :
          (Finished(l) /\ ld[l].doc = documents[i].root.doc)
          => /\ Shape(ld[l].s.nodes) = Shape(documents[i].root.nodes)
             /\ ld[l].doc_name = documents[i].key
                => ld[l].s.nodes = documents[i].root.nodes

\* a second load of the same page of prose under the same name has built its
\* tree while the tree of the first load is registered
C7_Witness ==
    /\ Finished(1)
    /\ ld[1].pc # "close"
    /\ ld[1].doc = <<Prose>>
    /\ \E i \in DOMAIN documents :
          /\ documents[i].key = ld[1].doc_name
          /\ documents[i].root.doc = <<Prose>>
          /\ documents[i].root.id # ld[1].id
          /\ Len(documents[i].root.nodes) = 2

\* whether no section pattern and no fallback pattern matches in text
NoMarker(text) ==
    \A pattern \in Range(section_patterns) \cup Range(fallback_patterns) :
        finditer(pattern, text) = <<>>

\* C8: a document of one page whose text no section pattern and no fallback
\* pattern matches is stored as a root with exactly one child, at level 1,
\* titled with the number of the page, 1, whose content is the text of the page.
C8_OnePageBucket ==
    \A i \in DOMAIN documents :
        (Len(documents[i].root.doc) = 1 /\ NoMarker(documents[i].root.doc[1]))
        => /\ Len(documents[i].root.nodes) = 2
           /\ documents[i].root.nodes[1].children = <<2>>
           /\ documents[i].root.nodes[2].parent = 1
           /\ documents[i].root.nodes[2].level = 1
           /\ documents[i].root.nodes[2].title = <<"U0635", "U0641", "U062D", "U0629", " ", "1">>
           /\ documents[i].root.nodes[2].content = documents[i].root.doc[1]

\* the tree of one page of prose is registered
C8_Witness ==
    /\ Len(documents) = 1
    /\ documents[1].root.doc = <<Prose>>
    /\ NoMarker(Prose)
    /\ documents[1].root.nodes[2].content = Prose
    /\ ld[1].pc = "idle"

\* whether s ends with suffix
EndsWith(s, suffix) ==
    /\ Len(suffix) <= Len(s)
    /\ SubSeq(s, Len(s) - Len(suffix) + 1, Len(s)) = suffix

\* C9: a page whose only marker is the line "<type> <number>: <heading>"
\* ("<type> <number>" when the heading is empty), followed or not by an unmarked
\* line, gives the root exactly one child, at level 1, titled with that line,
\* with the page's index as page_num and the page's text at the end of its
\* content.
C9_MarkerLineTitle ==
    \A i \in DOMAIN documents :
        \A type \in MarkerTypes, number \in MarkerNumbers,
           heading \in MarkerHeadings, body \in MarkerBodies :
            documents[i].root.doc = <<MarkerPage(type, number, heading, body)>>
            => /\ Len(documents[i].root.nodes) = 2
               /\ documents[i].root.nodes[1].children = <<2>>
               /\ documents[i].root.nodes[2].level = 1
               /\ documents[i].root.nodes[2].title = MarkerLine(type, number, heading)
               /\ documents[i].root.nodes[2].page_num = 0
               /\ EndsWith(documents[i].root.nodes[2].content,
                           MarkerPage(type, number, heading, body))

\* the title the claim gives a subsection: its marker, then at most 50
\* characters of its content, then "..." when the content is longer
C10_Title(marker, content) ==
    marker \o <<" ">> \o SubSeq(content, 1, IF Len(content) > 50 THEN 50 ELSE Len(content))
           \o (IF Len(content) > 50 THEN <<".", ".", ".">> ELSE <<>>)

\* C10: a page with the markers "1. First condition" and "2. <content>", scanned
\* while the section of the page before it (node 2) is current, adds exactly
\* two level-2 nodes, both children of that section, titled as C10_Title says
\* and holding the whole content.
C10_TwoSubsections ==
    \A i \in DOMAIN documents :
        \A c2 \in ConditionContents :
            documents[i].root.doc = <<ArticleScope, ConditionsPage(FirstCondition, c2)>>
            => LET nodes == documents[i].root.nodes
                   subsections == {n \in DOMAIN nodes : nodes[n].level = 2}
               IN /\ Cardinality(subsections) = 2
                  /\ \A n \in subsections :
                        /\ nodes[n].parent = 2
                        /\ n \in Children(nodes, 2)
                  /\ \E n \in subsections :
                        /\ nodes[n].title = C10_Title(<<"1">>, FirstCondition)
                        /\ nodes[n].content = FirstCondition
                  /\ \E n \in subsections :
                        /\ nodes[n].title = C10_Title(<<"2">>, c2)
                        /\ nodes[n].content = c2

\* the node a path names when every segment must match: the first the title of
\* the root, each later one the title of a child of the node before it; 0 when
\* some segment matches nothing
TitlePathNode(nodes, parts) ==
    IF parts[1] = nodes[1].title THEN Descend(nodes, 1, parts, 2) ELSE 0

\* C11: with a registered document current, select_section returns the node
\* its path names segment by segment, the first segment being the root's title,
\* and None when some segment matches nothing; a path of one segment, the
\* root's title, returns the root.
C11_ExactTitlePath ==
    \A i \in DOMAIN documents :
        (ret.op = "select_section" /\ current_doc = documents[i].key)
        => /\ ~ret.raised
           /\ ret.val =
                 IF TitlePathNode(documents[i].root.nodes, Split(ret.arg, PathSeparator)) = 0
                 THEN NoRef
                 ELSE Ref(documents[i].root.id,
                          TitlePathNode(documents[i].root.nodes, Split(ret.arg, PathSeparator)))

\* C12: get_documents returns the keys of the registry, each once, in the order
\* in which load_document registered them: a load that stores under a new key
\* puts it last, a load that stores under a registered key leaves the keys and
\* their order as they were.
C12_RegistrationOrder ==
    [][/\ ret'.op = "get_documents" =>
            /\ ret'.val = Keys(documents)
            /\ \A j, k \in DOMAIN ret'.val : ret'.val[j] = ret'.val[k] => j = k
       /\ \A l \in Loaders :
            (ld[l].pc # "close" /\ ld'[l].pc = "close") =>
                Keys(documents') =
                    IF \E k \in DOMAIN documents : documents[k].key = ld[l].doc_name
                    THEN Keys(documents)
                    ELSE Append(Keys(documents), ld[l].doc_name)]_vars

\* get_documents has returned two keys, the first of them loaded again after
\* the second was registered
C12_Witness ==
    /\ ret.op = "get_documents"
    /\ Len(ret.val) = 2
    /\ Len(documents) = 2
    /\ ret.val = <<documents[1].key, documents[2].key>>
    /\ documents[1].root.id > documents[2].root.id

\* whether s holds w as a substring, and whether s starts with w
Contains(s, w) == \E p \in 1..(Len(s) + 1) : LiteralAt(s, p, w, FALSE)

StartsWith(s, w) == LiteralAt(s, 1, w, FALSE)

\* C13: when the content of a section of a registered tree holds the marker
\* "Article 1" and some registered document has a top-level child whose title
\* starts with that marker, the navigator can be asked for the section's
\* cross-references and returns them: some operation of the navigator returns
\* as cross_references.
C13_CrossReferenceOffered ==
    \A i, j \in DOMAIN documents :
        \A n \in DOMAIN documents[i].root.nodes :
            \A c \in Children(documents[j].root.nodes, 1) :
                (/\ CanLookUp
                 /\ Contains(documents[i].root.nodes[n].content,
                             MarkerLine(Article, <<"1">>, <<>>))
                 /\ StartsWith(documents[j].root.nodes[c].title,
                               MarkerLine(Article, <<"1">>, <<>>)))
                => ENABLED (Next /\ ret'.op = "cross_references")

\* the deepest cursor of a scan state: the current subsection, else the
\* current section, else the root
DeepestCursor(s) ==
    IF s.current_subsection # 0 THEN s.current_subsection
    ELSE IF s.current_section # 0 THEN s.current_section
    ELSE 1

\* the content node n had before the page text was appended: what it held
\* before the page when it is older than the page, what it was made with
\* (nothing for a section, one line for a subsection) when the page made it
HeldBefore(old, new, n, content) ==
    IF n <= Len(old) THEN content = old[n].content ELSE NL \notin Range(content)

\* C14: a step of the primary scan appends the page's text once, after a line
\* break, to the cursor that is deepest once the page's matches are processed
\* (subsection, else section, else root), and to no other node.
C14_PageTextAppendedOnce ==
    [][\A l \in Loaders :
         (ld[l].pc = "scan" /\ ld'[l].pc = "scan" /\ ld'[l].page_num = ld[l].page_num + 1)
         => LET text   == ld[l].doc[ld'[l].page_num]
                old    == ld[l].s.nodes
                new    == ld'[l].s.nodes
                target == DeepestCursor(ld'[l].s)
            IN /\ EndsWith(new[target].content, <<NL>> \o text)
               /\ HeldBefore(old, new, target,
                             SubSeq(new[target].content, 1,
                                    Len(new[target].content) - Len(text) - 1))
               /\ \A n \in DOMAIN new :
                     n # target => HeldBefore(old, new, n, new[n].content)]_vars

\* a second page without any match has gone to the subsection carried over
\* from the first page
C14_Witness ==
    /\ ld[1].pc = "scan"
    /\ ld[1].page_num = 2
    /\ ld[1].doc[2] = Prose
    /\ ld[1].s.current_subsection # 0
    /\ ld[1].s.nodes[ld[1].s.current_subsection].level = 2
    /\ EndsWith(ld[1].s.nodes[ld[1].s.current_subsection].content, <<NL>> \o Prose)

\* the number of matches of the section patterns in text
SectionMatches(text) ==
    Len(finditer(section_patterns[1], text)) + Len(finditer(section_patterns[2], text))
        + Len(finditer(section_patterns[3], text))

\* C15: a step of the primary scan makes one level-1 node per match of a
\* section pattern, each a child of the root with the document's name as
\* source_doc and the page's index as page_num; the last of them is the current
\* section, and the current subsection after the page is cleared or a node
\* made after that section, under it.
C15_SectionPerMatch ==
    [][\A l \in Loaders :
         (ld[l].pc = "scan" /\ ld'[l].pc = "scan" /\ ld'[l].page_num = ld[l].page_num + 1)
         => LET old      == ld[l].s.nodes
                new      == ld'[l].s.nodes
                sections == {n \in (Len(old) + 1)..Len(new) : new[n].level = 1}
            IN /\ Cardinality(sections) = SectionMatches(ld[l].doc[ld'[l].page_num])
               /\ \A n \in sections :
                     /\ new[n].parent = 1
                     /\ Cardinality(Listings(new, n)) = 1
                     /\ n \in Children(new, 1)
                     /\ new[n].source_doc = ld[l].doc_name
                     /\ new[n].page_num = ld[l].page_num
               /\ sections # {} =>
                     /\ ld'[l].s.current_section \in sections
                     /\ \A n \in sections : n <= ld'[l].s.current_section
                     /\ ld'[l].s.sections_found
               /\ ld'[l].s.current_subsection # 0 =>
                     /\ ld'[l].s.current_subsection > ld'[l].s.current_section
                     /\ new[ld'[l].s.current_subsection].parent = ld'[l].s.current_section]_vars

\* a section of the second page is current, no subsection is, and the first
\* page left a subsection under an earlier section
C15_Witness ==
    /\ ld[1].pc = "scan"
    /\ ld[1].page_num = 2
    /\ ld[1].s.current_subsection = 0
    /\ ld[1].s.current_section # 0
    /\ ld[1].s.nodes[ld[1].s.current_section].page_num = 1
    /\ \E n \in DOMAIN ld[1].s.nodes :
          /\ ld[1].s.nodes[n].level = 2
          /\ ld[1].s.nodes[n].page_num = 0
          /\ ld[1].s.nodes[n].parent # ld[1].s.current_section

\* the marker lines of a page text: the starts of the lines at which some
\* section pattern or subsection pattern matches
MarkerLines(text) ==
    {p \in 1..Len(text) :
        \E pattern \in Range(section_patterns) \cup Range(subsection_patterns) :
            MatchAt(pattern, text, p).ok}

\* C16: in a tree built by the primary pass, the nodes made for a page are at
\* most as many as the marker lines of the page: no marker line is counted
\* twice across the patterns.
C16_OneNodePerMarker ==
    \A i \in DOMAIN documents :
        (\E k \in DOMAIN documents[i].root.doc : SectionMatches(documents[i].root.doc[k]) > 0)
        => \A k \in DOMAIN documents[i].root.doc :
              Cardinality({n \in 2..Len(documents[i].root.nodes) :
                              documents[i].root.nodes[n].page_num = k - 1})
                 <= Cardinality(MarkerLines(documents[i].root.doc[k]))

\* the matches of the section patterns in text, in the order of the text
SectionMatchesInTextOrder(text) ==
    SortSeq(finditer(section_patterns[1], text) \o finditer(section_patterns[2], text)
                \o finditer(section_patterns[3], text),
            LAMBDA a, b : a.start < b.start)

\* the titles of the section markers of the pages from the k-th on, page by
\* page and within a page in the order of the text
RECURSIVE TitlesInTextOrder(_, _)
TitlesInTextOrder(doc, k) ==
    IF k > Len(doc)
    THEN <<>>
    ELSE [j \in DOMAIN SectionMatchesInTextOrder(doc[k]) |->
             SectionTitle(SectionMatchesInTextOrder(doc[k])[j])]
         \o TitlesInTextOrder(doc, k + 1)

\* C17: in a tree built by the primary pass the children of the root stand in
\* the order in which their markers occur in the text, page by page and within
\* a page by position, whichever pattern matched them.
C17_ChildrenInTextOrder ==
    \A i \in DOMAIN documents :
        (\E k \in DOMAIN documents[i].root.doc : SectionMatches(documents[i].root.doc[k]) > 0)
        => [j \in DOMAIN documents[i].root.nodes[1].children |->
               documents[i].root.nodes[documents[i].root.nodes[1].children[j]].title]
           = TitlesInTextOrder(documents[i].root.doc, 1)

\* C18: the fallback pass starts only after the primary pass has gone over all
\* pages without a match of a section pattern, and a load without such a match
\* never stores without it; a tree stored after the primary pass alone has one
\* level-1 node per section match, a tree stored after the fallback pass has
\* no node of the primary pass (no match of a section pattern, no subsection).
C18_FallbackIffNoSection ==
    [][\A l \in Loaders :
         /\ (ld[l].pc = "scan" /\ ld'[l].pc = "fallback")
            => /\ ld[l].page_num = Len(ld[l].doc)
               /\ TitlesInTextOrder(ld[l].doc, 1) = <<>>
         /\ (ld[l].pc = "scan" /\ ld'[l].pc = "close")
            => /\ TitlesInTextOrder(ld[l].doc, 1) # <<>>
               /\ Cardinality({n \in DOMAIN ld[l].s.nodes : ld[l].s.nodes[n].level = 1})
                     = Len(TitlesInTextOrder(ld[l].doc, 1))
         /\ (ld[l].pc = "fallback" /\ ld'[l].pc = "close")
            => /\ TitlesInTextOrder(ld[l].doc, 1) = <<>>
               /\ \A n \in DOMAIN ld[l].s.nodes : ld[l].s.nodes[n].level # 2]_vars

\* the fallback pass has made the node of a capitalised line for a document
\* without any section marker
C18_Witness ==
    /\ ld[1].pc = "close"
    /\ ld[1].doc = <<Heading>>
    /\ SectionMatches(Heading) = 0
    /\ Len(ld[1].s.nodes) = 2
    /\ ld[1].s.nodes[2].title # PageTitle(0)

\* whether neither fallback pattern matches in text
NoFallbackMatch(text) ==
    \A pattern \in Range(fallback_patterns) : finditer(pattern, text) = <<>>

\* whether tree i was built by the fallback pass: no section pattern matches on
\* any of its pages
BuiltByFallback(i) == TitlesInTextOrder(documents[i].root.doc, 1) = <<>>

\* whether page k of tree i has its page bucket: exactly one node made for the
\* page, at level 1 under the root, titled with the page's number, its content
\* the text of the page
HasPageBucket(i, k) ==
    \E n \in Children(documents[i].root.nodes, 1) :
        /\ \A m \in 2..Len(documents[i].root.nodes) :
              documents[i].root.nodes[m].page_num = k - 1 => m = n
        /\ documents[i].root.nodes[n].page_num = k - 1
        /\ documents[i].root.nodes[n].level = 1
        /\ documents[i].root.nodes[n].parent = 1
        /\ documents[i].root.nodes[n].title
              = <<"U0635", "U0641", "U062D", "U0629", " ">> \o Str(k)
        /\ documents[i].root.nodes[n].content = documents[i].root.doc[k]

\* C19 as claimed: in a tree built by the fallback pass, every page that
\* matches neither fallback pattern has its page bucket.
C19_EveryUnmatchedPage ==
    \A i \in DOMAIN documents :
        BuiltByFallback(i)
        => \A k \in DOMAIN documents[i].root.doc :
              NoFallbackMatch(documents[i].root.doc[k]) => HasPageBucket(i, k)

\* C19 as amended: in a tree built by the fallback pass, the first page that
\* matches neither fallback pattern has its page bucket.
C19_FirstUnmatchedPage ==
    \A i \in DOMAIN documents :
        BuiltByFallback(i)
        => \A k \in DOMAIN documents[i].root.doc :
              (/\ NoFallbackMatch(documents[i].root.doc[k])
               /\ \A j \in 1..(k - 1) : ~NoFallbackMatch(documents[i].root.doc[j]))
              => HasPageBucket(i, k)

\* the second page is the first without a fallback match and has its bucket
C19_Witness ==
    /\ Len(documents) = 1
    /\ documents[1].root.doc = <<Heading, Prose>>
    /\ ~NoFallbackMatch(Heading)
    /\ NoFallbackMatch(Prose)
    /\ HasPageBucket(1, 2)
    /\ Len(documents[1].root.nodes) = 3

\* the page buckets among the nodes from the from-th on: the nodes titled as
\* a page
PageBuckets(nodes, from) ==
    {n \in from..Len(nodes) :
        StartsWith(nodes[n].title, <<"U0635", "U0641", "U062D", "U0629", " ">>)}

\* C20: a step of the fallback pass makes at most one page bucket, and when it
\* makes one sections_found is set; once sections_found is set no step makes a
\* page bucket, so the tree a load stores has at most one.
C20_OnePageBucket ==
    [][\A l \in Loaders :
         /\ (ld[l].pc = "fallback" /\ ld'[l].pc = "fallback"
                /\ ld'[l].page_num = ld[l].page_num + 1)
            => /\ Cardinality(PageBuckets(ld'[l].s.nodes, Len(ld[l].s.nodes) + 1)) <= 1
               /\ PageBuckets(ld'[l].s.nodes, Len(ld[l].s.nodes) + 1) # {}
                     => ld'[l].s.sections_found
               /\ ld[l].s.sections_found
                     => /\ PageBuckets(ld'[l].s.nodes, Len(ld[l].s.nodes) + 1) = {}
                        /\ ld'[l].s.sections_found
         /\ ld'[l].pc = "close" => Cardinality(PageBuckets(ld'[l].s.nodes, 1)) <= 1]_vars

\* two pages without any match are stored with the bucket of the first only
C20_Witness ==
    /\ Len(documents) = 1
    /\ documents[1].root.doc = <<Prose, Prose>>
    /\ PageBuckets(documents[1].root.nodes, 1) = {2}
    /\ Len(documents[1].root.nodes) = 2
    /\ documents[1].root.nodes[2].page_num = 0

\* C21: in every registered tree the root has level 0, a child's level is its
\* parent's level plus one (the root's children 1, their children 2), and no
\* node hangs under a level-2 node.
C21_LevelsFollowDepth ==
    \A i \in DOMAIN documents :
        LET nodes == documents[i].root.nodes
        IN /\ nodes[1].level = 0
           /\ nodes[1].parent = 0
           /\ \A n \in DOMAIN nodes :
                /\ \A c \in Children(nodes, n) :
                     /\ nodes[c].parent = n
                     /\ nodes[c].level = nodes[n].level + 1
                /\ nodes[n].level \in 0..2
                /\ nodes[n].level = 2 => nodes[n].children = <<>>

\* a registered tree with two subsections under one section
C21_Witness ==
    \E i \in DOMAIN documents :
        LET nodes == documents[i].root.nodes
        IN \E n \in Children(nodes, 1) :
              /\ nodes[n].level = 1
              /\ Len(nodes[n].children) >= 2
              /\ \A c \in Children(nodes, n) : nodes[c].level = 2

\* the primary loop over the pages of doc from page k on
RECURSIVE PrimaryFrom(_, _, _, _)
PrimaryFrom(s, doc, doc_name, k) ==
    IF k > Len(doc) THEN s
    ELSE PrimaryFrom(ScanPrimaryPage(s, doc[k], doc_name, k - 1), doc, doc_name, k + 1)

\* the fallback loop over the pages of doc from page k on
RECURSIVE FallbackFrom(_, _, _, _)
FallbackFrom(s, doc, doc_name, k) ==
    IF k > Len(doc) THEN s
    ELSE FallbackFrom(ScanFallbackPage(s, doc[k], doc_name, k - 1), doc, doc_name, k + 1)

\* the tree a call of load_document builds from the pages of doc and nothing else
TreeOf(doc_name, doc) ==
    LET primary == PrimaryFrom(NewScan(doc_name), doc, doc_name, 1)
    IN IF primary.sections_found
       THEN primary.nodes
       ELSE FallbackFrom(primary, doc, doc_name, 1).nodes

\* the roots a registry maps to
RootIds(d) == {d[i].root.id : i \in DOMAIN d}

\* C22: once load_document has succeeded for an identifier that was registered
\* when it was called, the registry holds that identifier once, mapped to a new
\* root that the registry did not hold before; the old root is no longer in the
\* registry, and the new tree is the tree built from the newly read pages alone.
C22_ReloadReplaces ==
    (/\ ret.op = "load_document"
     /\ ret.val = TRUE
     /\ Has(ret.before, LastSegment(ret.arg)))
    => LET doc_name == LastSegment(ret.arg)
           old == Get(ret.before, doc_name)
           new == Get(documents, doc_name)
       IN /\ Cardinality({i \in DOMAIN documents : documents[i].key = doc_name}) = 1
          /\ new.id \notin RootIds(ret.before)
          /\ old.id \notin RootIds(documents)
          /\ new.nodes = TreeOf(doc_name, new.doc)

\* a document registered with two sections has been loaded again from a file of
\* one page of prose
C22_Witness ==
    /\ ret.op = "load_document"
    /\ ret.val = TRUE
    /\ Has(ret.before, LastSegment(ret.arg))
    /\ Get(ret.before, LastSegment(ret.arg)).doc = <<ArticleScope, ArticleScope>>
    /\ Get(documents, LastSegment(ret.arg)).doc = <<Prose>>
    /\ Len(Get(documents, LastSegment(ret.arg)).nodes) = 2

\* C23: an error raised while one page is parsed is recovered locally: the call
\* stays in its pass and goes on with the next page, so no step taken while
\* pages are left to scan ends the call.
C23_PageErrorRecovered ==
    [][\A l \in Loaders :
          (ld[l].pc \in {"scan", "fallback"} /\ ld[l].page_num < Len(ld[l].doc))
          => /\ ld'[l].pc = ld[l].pc
             /\ ld'[l].page_num = ld[l].page_num + 1]_vars

\* C24: a step of a load of identifier X changes the locals of no other load and
\* no registry entry but that of X, which keeps its root and its tree, and a
\* stored tree is the tree of the pages its own load read, also when the loads
\* are interleaved page by page.
C24_LoadsIndependent ==
    [][/\ \A l \in Loaders :
            ld'[l] # ld[l]
            => /\ \A m \in Loaders \ {l} : ld'[m] = ld[m]
               /\ \A i \in DOMAIN documents :
                    documents[i].key # ld[l].doc_name
                    => /\ i \in DOMAIN documents'
                       /\ documents'[i] = documents[i]
       /\ \A i \in DOMAIN documents' :
            documents'[i].root.nodes = TreeOf(documents'[i].key, documents'[i].root.doc)]_vars

\* two loads of different identifiers under way at once, the one that was
\* called second having stored first, both past their store
C24_Witness ==
    /\ ld[1].pc = "close"
    /\ ld[2].pc = "close"
    /\ ld[1].doc_name # ld[2].doc_name
    /\ Len(documents) = 2
    /\ documents[1].root.id > documents[2].root.id

\* C25: current_doc is None or a key of the registry, and select_section never
\* fails on a registry entry that is missing.
C25_CurrentDocRegistered ==
    /\ current_doc = None \/ Has(documents, current_doc)
    /\ ret.op = "select_section" => ~ret.raised

\* C26: current_section is None or a node of the tree that the registry holds
\* under current_doc, also once that document has been loaded again.
C26_CurrentSectionInTree ==
    \/ current_section = NoRef
    \/ /\ current_doc # None
       /\ Has(documents, current_doc)
       /\ current_section.tree = Get(documents, current_doc).id
       /\ current_section.node \in DOMAIN Get(documents, current_doc).nodes

\* the matches of the section patterns in text, in the order the loops of the
\* primary pass take them
SectionMatchesAsMade(text) ==
    finditer(section_patterns[1], text) \o finditer(section_patterns[2], text)
        \o finditer(section_patterns[3], text)

\* the level-1 nodes of new that old does not hold, in the order they were made
SectionsMade(old, new) ==
    SelectSeq([k \in 1..(Len(new) - Len(old)) |-> Len(old) + k],
              LAMBDA n : new[n].level = 1)

\* C27: in a step of the primary scan a level-1 node receives the page's text
\* only if it is the current section, no subsection being current, once the page
\* is processed; a section made on the page whose marker is followed on the page
\* by another section match, or under which a subsection was made, has empty
\* content after the page.
C27_TextOnlyToCurrentSection ==
    [][\A l \in Loaders :
         (ld[l].pc = "scan" /\ ld'[l].pc = "scan" /\ ld'[l].page_num = ld[l].page_num + 1)
         => LET text    == ld[l].doc[ld'[l].page_num]
                old     == ld[l].s.nodes
                new     == ld'[l].s.nodes
                made    == SectionsMade(old, new)
                matches == SectionMatchesAsMade(text)
            IN /\ \A n \in DOMAIN new :
                    (/\ new[n].level = 1
                     /\ new[n].content # (IF n <= Len(old) THEN old[n].content ELSE <<>>))
                    => /\ n = ld'[l].s.current_section
                       /\ ld'[l].s.current_subsection = 0
               /\ Len(made) = Len(matches)
               /\ \A j \in DOMAIN made :
                    (\/ \E k \in DOMAIN matches : matches[k].start > matches[j].start
                     \/ new[made[j]].children # <<>>)
                    => new[made[j]].content = <<>>]_vars

\* C28: a select_document of an unregistered identifier and a select_section
\* that returns None change neither current_doc nor current_section, get_sections
\* and get_documents never change them, and a select_section that resolves a
\* path of two or more segments sets current_section to the node it returns.
C28_FailedLookupKeepsSelection ==
    [][/\ (ret'.op = "select_document" /\ ret'.val = NoRef)
            => /\ ~Has(documents, ret'.arg)
               /\ UNCHANGED <<current_doc, current_section>>
       /\ (ret'.op = "select_section" /\ ret'.val = NoRef)
            => UNCHANGED <<current_doc, current_section>>
       /\ ret'.op \in {"get_sections", "get_documents"}
            => UNCHANGED <<current_doc, current_section>>
       /\ (/\ ret'.op = "select_section"
           /\ ret'.val # NoRef
           /\ Len(Split(ret'.arg, PathSeparator)) >= 2)
            => /\ current_section' = ret'.val
               /\ UNCHANGED current_doc]_vars

\* select_section has returned None for a path whose last segment no node is
\* titled with, a section below the root being selected
C28_Witness ==
    /\ ret.op = "select_section"
    /\ ~ret.raised
    /\ ret.val = NoRef
    /\ Len(Split(ret.arg, PathSeparator)) >= 2
    /\ current_doc # None
    /\ Has(documents, current_doc)
    /\ current_section.tree = Get(documents, current_doc).id
    /\ current_section.node > 1

\* C29: between the pages of the primary scan a current subsection is a child
\* of the current section, a current section is a child of the root, and
\* sections_found is true exactly when the root has a child, which is exactly
\* when a current section is set.
C29_CursorsNested ==
    \A l \in Loaders :
        ld[l].pc = "scan"
        => LET s == ld[l].s
           IN /\ s.current_subsection # 0
                 => /\ s.current_section # 0
                    /\ s.nodes[s.current_subsection].parent = s.current_section
                    /\ s.current_subsection \in Children(s.nodes, s.current_section)
              /\ s.current_section # 0
                 => /\ s.nodes[s.current_section].parent = 1
                    /\ s.current_section \in Children(s.nodes, 1)
              /\ s.sections_found <=> s.nodes[1].children # <<>>
              /\ s.sections_found <=> s.current_section # 0

\* after the second page the scan is in a subsection of a section of that page,
\* the first page having made a section of its own
C29_Witness ==
    /\ ld[1].pc = "scan"
    /\ ld[1].page_num = 2
    /\ ld[1].s.sections_found
    /\ ld[1].s.current_subsection # 0
    /\ ld[1].s.nodes[ld[1].s.current_subsection].parent = ld[1].s.current_section
    /\ ld[1].s.nodes[ld[1].s.current_section].page_num = 1
    /\ Len(ld[1].s.nodes[1].children) >= 2

\* whether page_num never decreases along the children of node n, in list order
PagesAscend(nodes, n) ==
    \A j, k \in DOMAIN nodes[n].children :
        j < k => nodes[nodes[n].children[j]].page_num <= nodes[nodes[n].children[k]].page_num

\* C30: in every registered tree page_num does not decrease along the children
\* of the root nor along the children of a section, in list order, and a
\* level-2 node's page_num is at least its parent's.
C30_PageNumbersAscend ==
    \A i \in DOMAIN documents :
        LET nodes == documents[i].root.nodes
        IN /\ \A n \in DOMAIN nodes : PagesAscend(nodes, n)
           /\ \A n \in DOMAIN nodes :
                nodes[n].level = 2 => nodes[n].page_num >= nodes[nodes[n].parent].page_num
           /\ \A n \in DOMAIN nodes :
                n > 1 => nodes[n].page_num \in 0..(Len(documents[i].root.doc) - 1)

\* a registered tree with a subsection of the second page under a section of
\* the first
C30_Witness ==
    \E i \in DOMAIN documents :
        LET nodes == documents[i].root.nodes
        IN \E n \in DOMAIN nodes :
              /\ nodes[n].level = 2
              /\ nodes[n].page_num = 1
              /\ nodes[nodes[n].parent].level = 1
              /\ nodes[nodes[n].parent].page_num = 0

====
